---- MODULE Spec2Model ----
(***************************************************************************)
(* Model of the local certificate manager CLI (src/src/index.ts).          *)
(* One behaviour is a sequence of runs of the tool against the same        *)
(* certificate store directory (~/.certs) and Traefik TLS config file      *)
(* (tls.yml).  Strings whose characters matter (domains, file names,       *)
(* paths, shell command lines) are sequences of one-character strings.     *)
(***************************************************************************)
EXTENDS Integers, Sequences, FiniteSets, TLC

(* ---------- bounds ---------- *)
\* Registrations are only started while the config holds fewer entries.
MaxCerts == 3

(* ---------- fixed strings of the program ---------- *)
ROOT_CA == [certificate |-> <<"r","o","o","t",".","p","e","m">>, key |-> <<"r","o","o","t",".","k","e","y">>]
TraefikPathPrefix == <<"/","e","t","c","/","s","s","l","/","t","r","a","e","f","i","k","/">>
CrtSuffix == <<".","c","r","t">>
KeySuffix == <<".","k","e","y">>
CsrSuffix == <<".","c","s","r">>
ExtSuffix == <<".","e","x","t">>
TestSuffix == <<".","t","e","s","t">>
SerialFile == <<"r","o","o","t",".","s","r","l">>
SupportedPlatforms == {"darwin", "linux", "win32"}

\* Host platforms and prompt answers the model draws its inputs from.
Platforms == {"darwin", "linux", "win32", "sunos"}
Answers == { <<>>, <<"a",".","d","e","v">>, <<"a",".","t","e","s","t">>, <<"a","1",".","t","e","s","t">>, <<"b",".","t","e","s","t">>, <<"r","o","o","t",".","k","e","y"," ","#",".","t","e","s","t">> }
Choices == {"root_ca", "site_cert"}

(* ---------- messages written by logger / prompt validation ---------- *)
MsgNone == "none"
MsgUnsupported == "Your operating system is not supported by this tool."
MsgChooseDomain == "You need to choose a domain."
MsgNeedTest == "Your domain has to end with the .test extension."
MsgCaExists == "Root certificate authority already exist."
MsgCaCreated == "Certificate authority created with name root.pem and key root.key"
MsgCaMissing == "Root certificate authority do not exist."
MsgRegistered == "This domain is already registered locally. Please choose another one."

(* ---------- pure helpers ---------- *)
\* String.prototype.endsWith
endsWith(s, suffix) ==
  /\ Len(s) >= Len(suffix)
  /\ SubSeq(s, Len(s) - Len(suffix) + 1, Len(s)) = suffix

\* String.prototype.startsWith (used for the ^ anchored literal of the regexp)
startsWith(s, prefix) ==
  /\ Len(s) >= Len(prefix)
  /\ SubSeq(s, 1, Len(prefix)) = prefix

\* Variant: the suffix check is left out.
validate_nonempty(answer) ==
  IF answer = <<>> THEN MsgChooseDomain ELSE "true"

\* validate callback of prompt.ask: TRUE or the error message shown.
validate(answer) ==
  IF answer = <<>> THEN MsgChooseDomain
  ELSE IF ~endsWith(answer, TestSuffix) THEN MsgNeedTest
  ELSE "true"

getCertificateSubject(domain) ==
  <<"/","C","=","F","R","/","S","T","=","a","z","e","r","t","y","/","L","=","a","z","e","r","t","y","/","O","=","a","z","e","r","t","y","/","O","U","=","a","z","e","r","t","y","/","C","N","=">> \o domain

\* The character class [a-zA-Z-_.] of the conflict regexp.
DomainClass ==
  {"a","b","c","d","e","f","g","h","i","j","k","l","m",
   "n","o","p","q","r","s","t","u","v","w","x","y","z",
   "A","B","C","D","E","F","G","H","I","J","K","L","M",
   "N","O","P","Q","R","S","T","U","V","W","X","Y","Z",
   "-", "_", "."}

\* certFile.match(/^\/etc\/ssl\/traefik\/(?<domain>[a-zA-Z-_.]+)\.crt$/):
\* the captured group, or <<>> when the path does not match.
matchDomain(certFile) ==
  LET n == Len(certFile)
      lo == Len(TraefikPathPrefix) + 1
      hi == n - Len(CrtSuffix)
  IN IF /\ startsWith(certFile, TraefikPathPrefix)
        /\ hi >= lo
        /\ endsWith(certFile, CrtSuffix)
        /\ \A i \in lo..hi : certFile[i] \in DomainClass
     THEN SubSeq(certFile, lo, hi)
     ELSE <<>>

\* Variant: the requested domain is compared with the whole certFile path.
entryExists_path(existingCerts, domainName) ==
  \E i \in 1..Len(existingCerts) : existingCerts[i].certFile = domainName

\* existingCerts.find(...) !== undefined
entryExists(existingCerts, domainName) ==
  \E i \in 1..Len(existingCerts) :
     LET domain == matchDomain(existingCerts[i].certFile)
     IN domain # <<>> /\ domain = domainName

\* Variant: keyFile is given the certificate extension.
newEntry_crtkey(domainName) ==
  [certFile |-> TraefikPathPrefix \o domainName \o CrtSuffix,
   keyFile  |-> TraefikPathPrefix \o domainName \o CrtSuffix]

\* The entry pushed by addNewCertificate.
newEntry(domainName) ==
  [certFile |-> TraefikPathPrefix \o domainName \o CrtSuffix,
   keyFile  |-> TraefikPathPrefix \o domainName \o KeySuffix]

(* ---------- yaml: the config file is a list of "key: value" lines ---------- *)
RECURSIVE stringifyCerts(_)
stringifyCerts(certs) ==
  IF certs = <<>> THEN <<>>
  ELSE << <<"certFile", Head(certs).certFile>>, <<"keyFile", Head(certs).keyFile>> >>
       \o stringifyCerts(Tail(certs))

stringify(doc) == stringifyCerts(doc.tls.certificates)

RECURSIVE parseCerts(_)
parseCerts(lines) ==
  IF Len(lines) < 2 THEN <<>>
  ELSE << [certFile |-> lines[1][2], keyFile |-> lines[2][2]] >>
       \o parseCerts(SubSeq(lines, 3, Len(lines)))

parse(file) == [tls |-> [certificates |-> parseCerts(file)]]

(* ---------- shell.ls / shell.exec ---------- *)
\* Variant: the filter joins the two comparisons with && instead of ||.
alreadyExists_and(files) ==
  {f \in files : f = ROOT_CA.certificate /\ f = ROOT_CA.key}

\* shell.ls(certsDir).filter(file => file === root.pem || file === root.key)
alreadyExists(files) ==
  {f \in files : f = ROOT_CA.certificate \/ f = ROOT_CA.key}

\* Variant: one root file is enough to count as existing.
rootAuthorityExists_any(files) == Cardinality(alreadyExists(files)) >= 1

\* alreadyExists.length === 2 in createCertificateAuthority
rootAuthorityExists(files) == Cardinality(alreadyExists(files)) = 2

\* Variant: only an authority with neither file counts as missing.
rootAuthorityMissing_none(files) == Cardinality(alreadyExists(files)) = 0

\* alreadyExists.length !== 2 in verifyRootCertificates
rootAuthorityMissing(files) == Cardinality(alreadyExists(files)) # 2

Min(S) == CHOOSE x \in S : \A y \in S : x <= y

\* Word splitting of /bin/sh: unquoted blanks separate words, double quotes
\* group (and are removed), an unquoted # at the start of a word comments
\* out the rest of the line.
shellWords(cmd) ==
  LET n == Len(cmd)
      quotes == {j \in 1..n : cmd[j] = "\""}
      quoted(i) == Cardinality({j \in quotes : j < i}) % 2 = 1
      blanks == {i \in 1..n : cmd[i] = " " /\ ~quoted(i)}
      wordStart(i) == i \notin blanks /\ (i = 1 \/ (i - 1) \in blanks)
      comments == {i \in 1..n : cmd[i] = "#" /\ ~quoted(i) /\ wordStart(i)}
      end == IF comments = {} THEN n ELSE Min(comments) - 1
      starts == {i \in 1..end : wordStart(i)}
      stop(s) == Min({i \in blanks : i > s} \cup {end + 1}) - 1
      word(s) == SelectSeq(SubSeq(cmd, s, stop(s)), LAMBDA c : c # "\"")
      kth(k) == CHOOSE s \in starts : Cardinality({t \in starts : t < s}) = k - 1
  IN [k \in 1..Cardinality(starts) |-> word(kth(k))]

\* Argument of the last occurrence of an option, <<>> when the option is absent.
optArg(words, opt) ==
  LET idx == {i \in 1..(Len(words) - 1) : words[i] = opt}
  IN IF idx = {} THEN <<>>
     ELSE words[(CHOOSE i \in idx : \A j \in idx : j <= i) + 1]

hasWord(words, w) == \E i \in 1..Len(words) : words[i] = w

\* Files an openssl command line reads.
inputOpts == { <<"-","k","e","y">>, <<"-","i","n">>, <<"-","C","A">>, <<"-","C","A","k","e","y">>, <<"-","e","x","t","f","i","l","e">> }
\* openssl x509 -req cannot sign without -in, -CA and -CAkey.
requiredOpts(words) ==
  IF hasWord(words, <<"x","5","0","9">>) THEN { <<"-","i","n">>, <<"-","C","A">>, <<"-","C","A","k","e","y">> }
  ELSE IF hasWord(words, <<"r","e","q">>) THEN { <<"-","k","e","y">> }
  ELSE {}

\* The command can exit 0 only when every file it reads is in the cwd.
canSucceed(cmd, files) ==
  LET words == shellWords(cmd)
  IN /\ \A o \in requiredOpts(words) : optArg(words, o) # <<>>
     /\ \A o \in inputOpts : optArg(words, o) # <<>> => optArg(words, o) \in files

\* File written through -out, <<>> when the output goes to stdout.
outFile(cmd) == optArg(shellWords(cmd), <<"-","o","u","t">>)

\* Directory content after shell.exec(cmd, {cwd: certsDir}) exited with ok.
execFiles(cmd, files, ok) ==
  IF ~ok THEN files
  ELSE files
       \cup (IF outFile(cmd) = <<>> THEN {} ELSE {outFile(cmd)})
       \cup (IF hasWord(shellWords(cmd), <<"-","C","A","c","r","e","a","t","e","s","e","r","i","a","l">>) THEN {SerialFile} ELSE {})

(* ---------- command lines ---------- *)
keyCmd(platform) ==
  (IF platform = "win32" THEN <<"w","i","n","p","t","y"," ">> ELSE <<>>)
  \o <<"o","p","e","n","s","s","l"," ","g","e","n","r","s","a"," ","-","d","e","s","3"," ","-","o","u","t"," ","r","o","o","t",".","k","e","y"," ","2","0","4","8">>

certCmd(platform) ==
  (IF platform = "win32" THEN <<"w","i","n","p","t","y"," ">> ELSE <<>>)
  \o <<"o","p","e","n","s","s","l"," ","r","e","q"," ","-","x","5","0","9"," ","-","n","e","w"," ","-","n","o","d","e","s"," ","-","k","e","y"," ","r","o","o","t",".","k","e","y"," ","-","s","h","a","2","5","6"," ","-","d","a","y","s"," ","1","8","2","5"," ","-","o","u","t"," ","r","o","o","t",".","p","e","m"," ","-","s","u","b","j"," ","\"">>
  \o getCertificateSubject(<<"R","o","o","t"," ","C","A">>) \o <<"\"">>

leafKeyCmd(domainName) ==
  <<"o","p","e","n","s","s","l"," ","g","e","n","r","s","a"," ","-","o","u","t"," ">> \o domainName \o <<".","k","e","y"," ","2","0","4","8">>

leafCsrCmd(domainName) ==
  <<"o","p","e","n","s","s","l"," ","r","e","q"," ","-","n","e","w"," ","-","k","e","y"," ">> \o domainName \o <<".","k","e","y"," ","-","o","u","t"," ">> \o domainName
  \o <<".","c","s","r"," ","-","s","u","b","j"," ","\"">> \o getCertificateSubject(domainName) \o <<"\"">>

\* Variant: the certificate is written with the .pem extension.
leafCrtCmd_pem(domainName) ==
  <<"o","p","e","n","s","s","l"," ","x","5","0","9"," ","-","r","e","q"," ","-","i","n"," ">> \o domainName
  \o <<".","c","s","r"," ","-","C","A"," ","r","o","o","t",".","p","e","m"," ","-","C","A","k","e","y"," ","r","o","o","t",".","k","e","y"," ","-","C","A","c","r","e","a","t","e","s","e","r","i","a","l"," ","-","o","u","t"," ">> \o domainName
  \o <<".","p","e","m"," ","-","d","a","y","s"," ","8","2","5"," ","-","s","h","a","2","5","6"," ","-","e","x","t","f","i","l","e"," ">> \o domainName \o <<".","e","x","t">>

leafCrtCmd(domainName) ==
  <<"o","p","e","n","s","s","l"," ","x","5","0","9"," ","-","r","e","q"," ","-","i","n"," ">> \o domainName
  \o <<".","c","s","r"," ","-","C","A"," ","r","o","o","t",".","p","e","m"," ","-","C","A","k","e","y"," ","r","o","o","t",".","k","e","y"," ","-","C","A","c","r","e","a","t","e","s","e","r","i","a","l"," ","-","o","u","t"," ">> \o domainName
  \o <<".","c","r","t"," ","-","d","a","y","s"," ","8","2","5"," ","-","s","h","a","2","5","6"," ","-","e","x","t","f","i","l","e"," ">> \o domainName \o <<".","e","x","t">>

(* ---------- state ---------- *)
VARIABLES
  os,          \* platform()
  store,       \* file names in certsDir
  configFile,  \* content of tls.yml
  pc,          \* position of the running process
  action,      \* answer to the choice prompt
  answer,      \* last answer typed at the domain prompt
  domainName,  \* argument of addNewCertificate
  parsedFile,  \* local of addNewCertificate
  message,     \* last message shown
  exitCode,    \* -1 while running
  log,         \* steps the current run has performed, in order
  store0,      \* store when the run started
  cfg0         \* configFile when the run started

vars == <<os, store, configFile, pc, action, answer, domainName, parsedFile,
          message, exitCode, log, store0, cfg0>>

NoDomain == <<>>
Unread == [tls |-> [certificates |-> <<>>]]
Event(step, file, ok) == [step |-> step, file |-> file, ok |-> ok]

\* tls.yml as the operator left it: no certificate yet, or one registered by
\* hand for a proxy path this tool does not produce.
InitialConfigs ==
  { Unread,
    [tls |-> [certificates |->
       << [certFile |-> <<"/","c","e","r","t","s","/","a",".","t","e","s","t",".","c","r","t">>, keyFile |-> <<"/","c","e","r","t","s","/","a",".","t","e","s","t",".","k","e","y">>] >>]] }

Init ==
  /\ os \in Platforms
  /\ store \in SUBSET {ROOT_CA.certificate, ROOT_CA.key}
  /\ configFile \in {stringify(doc) : doc \in InitialConfigs}
  /\ pc = "start"
  /\ action = "none"
  /\ answer = <<>>
  /\ domainName = NoDomain
  /\ parsedFile = Unread
  /\ message = MsgNone
  /\ exitCode = -1
  /\ log = <<>>
  /\ store0 = store
  /\ cfg0 = configFile

Exit(code, msg) ==
  /\ pc' = "exited"
  /\ exitCode' = code
  /\ message' = msg

(* ---------- start() ---------- *)
StartUnsupported ==
  /\ pc = "start"
  /\ os \notin SupportedPlatforms
  /\ Exit(1, MsgUnsupported)
  /\ UNCHANGED <<os, store, configFile, action, answer, domainName, parsedFile, log, store0, cfg0>>

StartChoice ==
  /\ pc = "start"
  /\ os \in SupportedPlatforms
  /\ \E a \in Choices :
       /\ a = "site_cert" => Len(parse(configFile).tls.certificates) < MaxCerts
       /\ action' = a
       /\ pc' = IF a = "root_ca" THEN "ca_ls" ELSE "ask"
  /\ UNCHANGED <<os, store, configFile, answer, domainName, parsedFile, message, exitCode, log, store0, cfg0>>

AskRejected ==
  /\ pc = "ask"
  /\ \E a \in Answers :
       /\ validate(a) # "true"
       /\ answer' = a
       /\ message' = validate(a)
  /\ UNCHANGED <<os, store, configFile, pc, action, domainName, parsedFile, exitCode, log, store0, cfg0>>

AskAccepted ==
  /\ pc = "ask"
  /\ \E a \in Answers :
       /\ validate(a) = "true"
       /\ answer' = a
       /\ domainName' = a
  /\ message' = MsgNone
  /\ pc' = "verify"
  /\ UNCHANGED <<os, store, configFile, action, parsedFile, exitCode, log, store0, cfg0>>

(* ---------- createCertificateAuthority() ---------- *)
CaExists ==
  /\ pc = "ca_ls"
  /\ rootAuthorityExists(store)
  /\ log' = Append(log, Event("ca_ls", <<>>, TRUE))
  /\ Exit(0, MsgCaExists)
  /\ UNCHANGED <<os, store, configFile, action, answer, domainName, parsedFile, store0, cfg0>>

CaAbsent ==
  /\ pc = "ca_ls"
  /\ ~rootAuthorityExists(store)
  /\ log' = Append(log, Event("ca_ls", <<>>, TRUE))
  /\ pc' = "ca_key"
  /\ UNCHANGED <<os, store, configFile, action, answer, domainName, parsedFile, message, exitCode, store0, cfg0>>

CaKey ==
  /\ pc = "ca_key"
  /\ \E ok \in BOOLEAN :
       /\ ok => canSucceed(keyCmd(os), store)
       /\ store' = execFiles(keyCmd(os), store, ok)
       /\ log' = Append(log, Event("ca_key", outFile(keyCmd(os)), ok))
  /\ pc' = "ca_cert"
  /\ UNCHANGED <<os, configFile, action, answer, domainName, parsedFile, message, exitCode, store0, cfg0>>

CaCert ==
  /\ pc = "ca_cert"
  /\ \E ok \in BOOLEAN :
       /\ ok => canSucceed(certCmd(os), store)
       /\ store' = execFiles(certCmd(os), store, ok)
       /\ log' = Append(log, Event("ca_cert", outFile(certCmd(os)), ok))
  /\ Exit(0, MsgCaCreated)
  /\ UNCHANGED <<os, configFile, action, answer, domainName, parsedFile, store0, cfg0>>

(* ---------- addNewCertificate(domainName) ---------- *)
VerifyMissing ==
  /\ pc = "verify"
  /\ rootAuthorityMissing(store)
  /\ log' = Append(log, Event("verify", <<>>, FALSE))
  /\ Exit(1, MsgCaMissing)
  /\ UNCHANGED <<os, store, configFile, action, answer, domainName, parsedFile, store0, cfg0>>

VerifyPresent ==
  /\ pc = "verify"
  /\ ~rootAuthorityMissing(store)
  /\ log' = Append(log, Event("verify", <<>>, TRUE))
  /\ pc' = "read"
  /\ UNCHANGED <<os, store, configFile, action, answer, domainName, parsedFile, message, exitCode, store0, cfg0>>

ReadConfig ==
  /\ pc = "read"
  /\ parsedFile' = parse(configFile)
  /\ log' = Append(log, Event("read", <<>>, TRUE))
  /\ pc' = "find"
  /\ UNCHANGED <<os, store, configFile, action, answer, domainName, message, exitCode, store0, cfg0>>

Conflict ==
  /\ pc = "find"
  /\ entryExists(parsedFile.tls.certificates, domainName)
  /\ log' = Append(log, Event("find", <<>>, FALSE))
  /\ Exit(1, MsgRegistered)
  /\ UNCHANGED <<os, store, configFile, action, answer, domainName, parsedFile, store0, cfg0>>

NoConflict ==
  /\ pc = "find"
  /\ ~entryExists(parsedFile.tls.certificates, domainName)
  /\ log' = Append(log, Event("find", <<>>, TRUE))
  /\ pc' = "gen_key"
  /\ UNCHANGED <<os, store, configFile, action, answer, domainName, parsedFile, message, exitCode, store0, cfg0>>

\* One shell.exec of generateCertificate.
ExecStep(here, cmd, next) ==
  /\ pc = here
  /\ \E ok \in BOOLEAN :
       /\ ok => canSucceed(cmd, store)
       /\ store' = execFiles(cmd, store, ok)
       /\ log' = Append(log, Event(here, outFile(cmd), ok))
  /\ pc' = next
  /\ UNCHANGED <<os, configFile, action, answer, domainName, parsedFile, message, exitCode, store0, cfg0>>

GenKey == ExecStep("gen_key", leafKeyCmd(domainName), "gen_csr")

GenCsr == ExecStep("gen_csr", leafCsrCmd(domainName), "write_ext")

WriteExt ==
  /\ pc = "write_ext"
  /\ store' = store \cup {domainName \o ExtSuffix}
  /\ log' = Append(log, Event("write_ext", domainName \o ExtSuffix, TRUE))
  /\ pc' = "gen_crt"
  /\ UNCHANGED <<os, configFile, action, answer, domainName, parsedFile, message, exitCode, store0, cfg0>>

GenCrt == ExecStep("gen_crt", leafCrtCmd(domainName), "write_cfg")

PushAndWrite ==
  /\ pc = "write_cfg"
  /\ parsedFile' = [tls |-> [certificates |->
                      Append(parsedFile.tls.certificates, newEntry(domainName))]]
  /\ configFile' = stringify(parsedFile')
  /\ log' = Append(log, Event("write_cfg", <<>>, TRUE))
  /\ Exit(0, MsgNone)
  /\ UNCHANGED <<os, store, action, answer, domainName, store0, cfg0>>

(* ---------- the operator runs the tool again ---------- *)
NewRun ==
  /\ pc = "exited"
  /\ pc' = "start"
  /\ action' = "none"
  /\ answer' = <<>>
  /\ domainName' = NoDomain
  /\ parsedFile' = Unread
  /\ message' = MsgNone
  /\ exitCode' = -1
  /\ log' = <<>>
  /\ store0' = store
  /\ cfg0' = configFile
  /\ UNCHANGED <<os, store, configFile>>

Next ==
  \/ StartUnsupported \/ StartChoice \/ AskRejected \/ AskAccepted
  \/ CaExists \/ CaAbsent \/ CaKey \/ CaCert
  \/ VerifyMissing \/ VerifyPresent \/ ReadConfig \/ Conflict \/ NoConflict
  \/ GenKey \/ GenCsr \/ WriteExt \/ GenCrt \/ PushAndWrite
  \/ NewRun

Spec == Init /\ [][Next]_vars

(* ---------- vocabulary of the properties ---------- *)
Certs(file) == parse(file).tls.certificates
RootPresent(files) == ROOT_CA.certificate \in files /\ ROOT_CA.key \in files
IssuanceSteps == {"gen_key", "gen_csr", "write_ext", "gen_crt"}
ToolSteps == {"ca_key", "ca_cert", "gen_key", "gen_csr", "gen_crt"}
StepsOf(l) == [i \in 1..Len(l) |-> l[i].step]
AllOk == \A i \in 1..Len(log) : log[i].ok
InRegister == action = "site_cert" /\ domainName # NoDomain
EndsInTest(d) ==
  /\ Len(d) >= 5
  /\ SubSeq(d, Len(d) - 4, Len(d)) = <<".", "t", "e", "s", "t">>
ExpectedEntry(d) ==
  [certFile |-> <<"/","e","t","c","/","s","s","l","/","t","r","a","e","f","i","k","/">> \o d \o <<".","c","r","t">>,
   keyFile  |-> <<"/","e","t","c","/","s","s","l","/","t","r","a","e","f","i","k","/">> \o d \o <<".","k","e","y">>]
RegisteredAtStart(d) ==
  \E i \in 1..Len(Certs(cfg0)) :
     matchDomain(Certs(cfg0)[i].certFile) # <<>> /\ matchDomain(Certs(cfg0)[i].certFile) = d

\* C1: when the config the run started with has an entry whose certFile
\* matches the regexp with captured domain D, addNewCertificate(D) leaves the
\* config file and the store unchanged, performs no leaf-issuance step and no
\* config write, and the process ends with exit status 1.
C1_ConflictRejected ==
  (InRegister /\ RegisteredAtStart(domainName)) =>
     /\ configFile = cfg0
     /\ store = store0
     /\ \A i \in 1..Len(log) : log[i].step \notin IssuanceSteps \cup {"write_cfg"}
     /\ pc = "exited" => exitCode = 1

C1_Witness ==
  /\ InRegister /\ RegisteredAtStart(domainName)
  /\ pc = "exited" /\ exitCode = 1 /\ message = MsgRegistered

\* C2: no two entries of tls.certificates name the certificate path
\* /etc/ssl/traefik/D.crt of the same domain D.
C2_Uniqueness ==
  \A i, j \in 1..Len(Certs(configFile)) :
     (/\ i # j
      /\ startsWith(Certs(configFile)[i].certFile, TraefikPathPrefix)
      /\ endsWith(Certs(configFile)[i].certFile, CrtSuffix))
     => Certs(configFile)[i].certFile # Certs(configFile)[j].certFile

\* C3: a failed openssl invocation is the last step of its flow; the config
\* is rewritten only when every leaf-issuance step succeeded, and creation of
\* the authority is reported only when both of its commands succeeded.
C3_ExitStatusGates ==
  /\ \A i, j \in 1..Len(log) : (i < j /\ log[i].step \in ToolSteps) => log[i].ok
  /\ configFile # cfg0 => AllOk
  /\ message = MsgCaCreated => AllOk

\* C4: when the store the run started with lacks root.pem or root.key,
\* addNewCertificate stops at the root-authority check: the config is not
\* read, nothing is executed or written, and the exit status is 1.
C4_MissingRootRejected ==
  (InRegister /\ ~RootPresent(store0)) =>
     /\ pc \in {"verify", "exited"}
     /\ \A i \in 1..Len(log) : log[i].step = "verify"
     /\ store = store0
     /\ configFile = cfg0
     /\ pc = "exited" => (exitCode = 1 /\ message = MsgCaMissing)

C4_Witness ==
  /\ InRegister /\ ~RootPresent(store0) /\ store0 # {}
  /\ pc = "exited" /\ exitCode = 1

\* C5: with both root files in the store, createCertificateAuthority runs no
\* command, leaves the store and the config file as they were, and exits 0.
C5_AuthorityNoOp ==
  (action = "root_ca" /\ RootPresent(store0)) =>
     /\ \A i \in 1..Len(log) : log[i].step \notin ToolSteps
     /\ store = store0
     /\ configFile = cfg0
     /\ pc \in {"ca_ls", "exited"}
     /\ pc = "exited" => (exitCode = 0 /\ message = MsgCaExists)

C5_Witness ==
  /\ action = "root_ca" /\ RootPresent(store0)
  /\ pc = "exited" /\ exitCode = 0

\* C6: a run never removes or changes an entry: the certificates sequence is
\* the one the run started with, or that sequence followed by the single
\* entry for the requested domain; a successful addNewCertificate(D) ends
\* with exactly the latter.
C6_AppendOnly ==
  /\ \/ Certs(configFile) = Certs(cfg0)
     \/ /\ InRegister
        /\ Certs(configFile) = Append(Certs(cfg0), ExpectedEntry(domainName))
  /\ (InRegister /\ pc = "exited" /\ exitCode = 0 /\ AllOk) =>
        Certs(configFile) = Append(Certs(cfg0), ExpectedEntry(domainName))

C6_Witness ==
  /\ InRegister /\ pc = "exited" /\ exitCode = 0 /\ AllOk
  /\ Len(Certs(cfg0)) >= 1
  /\ Len(Certs(configFile)) = Len(Certs(cfg0)) + 1

\* C7: while the domain prompt is open nothing has been written, executed or
\* logged; addNewCertificate is entered only with a non-empty answer ending
\* in .test, and every entry a run appends names such a domain.
C7_ValidatedDomain ==
  /\ (action = "site_cert" /\ pc = "ask") =>
        /\ domainName = NoDomain
        /\ store = store0 /\ configFile = cfg0 /\ log = <<>>
        /\ message # MsgNone => (answer = <<>> \/ ~EndsInTest(answer))
  /\ (action = "site_cert" /\ pc # "ask") =>
        /\ domainName = answer
        /\ domainName # <<>>
        /\ EndsInTest(domainName)
  /\ \A i \in (Len(Certs(cfg0)) + 1)..Len(Certs(configFile)) :
        /\ EndsInTest(domainName)
        /\ Certs(configFile)[i] = ExpectedEntry(domainName)

C7_Witness ==
  /\ action = "site_cert" /\ pc = "ask"
  /\ answer = <<"a",".","d","e","v">> /\ message = MsgNeedTest

\* C8: in a run started with both root files in the store, no step removes
\* one of them or writes to one of them.
C8_RootNeverMutated ==
  [][RootPresent(store0) =>
       /\ RootPresent(store')
       /\ ~(/\ Len(log') = Len(log) + 1
            /\ log'[Len(log')].ok
            /\ log'[Len(log')].file \in {ROOT_CA.certificate, ROOT_CA.key})]_vars

\* C9: a successful register run for D performed exactly these steps in this
\* order: root check, config read, conflict check, D.key, D.csr, D.ext, D.crt,
\* config write; in any run the config file differs from the one the run
\* started with only after the D.crt step, and is written at most once.
C9_StepOrder ==
  /\ (InRegister /\ pc = "exited" /\ exitCode = 0 /\ AllOk) =>
        log = << Event("verify", <<>>, TRUE),
                 Event("read", <<>>, TRUE),
                 Event("find", <<>>, TRUE),
                 Event("gen_key", domainName \o <<".","k","e","y">>, TRUE),
                 Event("gen_csr", domainName \o <<".","c","s","r">>, TRUE),
                 Event("write_ext", domainName \o <<".","e","x","t">>, TRUE),
                 Event("gen_crt", domainName \o <<".","c","r","t">>, TRUE),
                 Event("write_cfg", <<>>, TRUE) >>
  /\ \A i \in 1..Len(log) :
        log[i].step = "write_cfg" =>
           /\ i = Len(log)
           /\ \E j \in 1..(i - 1) : log[j].step = "gen_crt"
  /\ configFile # cfg0 => \E i \in 1..Len(log) : log[i].step = "write_cfg"

C9_Witness ==
  /\ InRegister /\ pc = "exited" /\ exitCode = 0 /\ AllOk
  /\ (domainName \o <<".","c","r","t">>) \in store

TypeOK ==
  /\ os \in Platforms
  /\ exitCode \in {-1, 0, 1}
  /\ action \in Choices \cup {"none"}
  /\ Len(parse(configFile).tls.certificates) <= MaxCerts
====
